---------------------------- MODULE Spec2Model ----------------------------
(***************************************************************************)
(* The Gentile SiPM charge-spectrum model of CHECLabPy                     *)
(* (CHECLabPy/spectrum_fitters/gentile.py): the lookup tables built at     *)
(* import, the parameter schema declared by GentileFitter.__init__,        *)
(* prepare_params, and the evaluator sipm_spe_fit with its helpers.        *)
(*                                                                         *)
(* Numbers.  The program computes with IEEE doubles.  The weights (Poisson *)
(* pmf, crosstalk mixture, afterpulse split) and every product and sum     *)
(* built on them are modelled EXACTLY, as signed fractions whose           *)
(* denominator is a product of powers of 2, 3, 5, 7, 11 (all denominators  *)
(* the program meets for the inputs drawn here: decimal parameters and     *)
(* j! for j <= 10), together with the two IEEE specials the code can       *)
(* produce, infinity (0.0 ** negative) and NaN (inf * 0, binom(-1, k)).    *)
(* Rounding, overflow and underflow of doubles are not modelled.  The two  *)
(* transcendental leaves are decimal approximations: np.exp(-mu) of the    *)
(* Poisson pmf to 12 decimal places, and _normal_pdf to 4 decimal places   *)
(* computed in fixed point.  TLC integers are 32 bit, so numerators are    *)
(* little-endian sequences of base-10000 limbs.                            *)
(***************************************************************************)
EXTENDS Integers, Sequences, FiniteSets, TLC

----------------------------------------------------------------------------
(* Natural numbers of arbitrary size: <<>> is 0, least significant limb    *)
(* first, no leading zero limb.  The loops over the limbs split their      *)
(* range in halves, which keeps the depth of evaluation logarithmic.       *)

LIMB == 100 * 100

Max(a, b) == IF a >= b THEN a ELSE b
Abs(a) == IF a < 0 THEN -a ELSE a
Sign(a) == IF a < 0 THEN -1 ELSE IF a = 0 THEN 0 ELSE 1

RECURSIVE IntPow(_, _)
IntPow(b, k) == IF k = 0 THEN 1 ELSE b * IntPow(b, k - 1)

LimbAt(a, i) == IF i <= Len(a) THEN a[i] ELSE 0

BNorm(a) ==
  LET used == {i \in 1..Len(a) : a[i] # 0}
  IN  IF used = {} THEN <<>>
      ELSE SubSeq(a, 1, CHOOSE i \in used : \A j \in used : j <= i)

RECURSIVE BFromInt(_)
BFromInt(m) ==
  IF m = 0 THEN <<>> ELSE <<m % LIMB>> \o BFromInt(m \div LIMB)

(* limbs lo..hi of a + b + c, and the carry out of limb hi *)
RECURSIVE AddRange(_, _, _, _, _)
AddRange(a, b, lo, hi, c) ==
  IF lo = hi
  THEN LET s == LimbAt(a, lo) + LimbAt(b, lo) + c
       IN  [d |-> <<s % LIMB>>, c |-> s \div LIMB]
  ELSE LET mid == (lo + hi) \div 2
           L == AddRange(a, b, lo, mid, c)
           U == AddRange(a, b, mid + 1, hi, L.c)
       IN  [d |-> L.d \o U.d, c |-> U.c]

BAdd(a, b) ==
  LET n == Max(Len(a), Len(b))
      r == AddRange(a, b, 1, n, 0)
  IN  IF n = 0 THEN <<>>
      ELSE IF r.c = 0 THEN r.d ELSE Append(r.d, r.c)

(* limbs lo..hi of a - b - c, and the borrow out of limb hi *)
RECURSIVE SubRange(_, _, _, _, _)
SubRange(a, b, lo, hi, c) ==
  IF lo = hi
  THEN LET s == LimbAt(a, lo) - LimbAt(b, lo) - c
       IN  [d |-> <<(s + LIMB) % LIMB>>, c |-> IF s < 0 THEN 1 ELSE 0]
  ELSE LET mid == (lo + hi) \div 2
           L == SubRange(a, b, lo, mid, c)
           U == SubRange(a, b, mid + 1, hi, L.c)
       IN  [d |-> L.d \o U.d, c |-> U.c]

(* a - b for a >= b *)
BSub(a, b) == IF a = <<>> THEN <<>> ELSE BNorm(SubRange(a, b, 1, Len(a), 0).d)

(* limbs lo..hi of a * d + c for 0 < d <= LIMB, and the carry out *)
RECURSIVE MulSmallRange(_, _, _, _, _)
MulSmallRange(a, d, lo, hi, c) ==
  IF lo = hi
  THEN LET s == a[lo] * d + c
       IN  [d |-> <<s % LIMB>>, c |-> s \div LIMB]
  ELSE LET mid == (lo + hi) \div 2
           L == MulSmallRange(a, d, lo, mid, c)
           U == MulSmallRange(a, d, mid + 1, hi, L.c)
       IN  [d |-> L.d \o U.d, c |-> U.c]

BMulSmall(a, d) ==
  IF d = 0 \/ a = <<>> THEN <<>>
  ELSE LET r == MulSmallRange(a, d, 1, Len(a), 0)
       IN  r.d \o BFromInt(r.c)

(* a * LIMB^k *)
BShift(a, k) == IF a = <<>> THEN <<>> ELSE [i \in 1..k |-> 0] \o a

(* (limbs lo..hi of a, as a number) * b *)
RECURSIVE MulRange(_, _, _, _)
MulRange(a, b, lo, hi) ==
  IF lo = hi THEN BMulSmall(b, a[lo])
  ELSE LET mid == (lo + hi) \div 2
       IN  BAdd(MulRange(a, b, lo, mid),
                BShift(MulRange(a, b, mid + 1, hi), mid - lo + 1))

BMul(a, b) ==
  IF a = <<>> \/ b = <<>> THEN <<>>
  ELSE IF Len(a) <= Len(b) THEN MulRange(a, b, 1, Len(a))
  ELSE MulRange(b, a, 1, Len(b))

(* -1, 0, 1 as a < b, a = b, a > b *)
BCmp(a, b) ==
  IF Len(a) < Len(b) THEN -1
  ELSE IF Len(a) > Len(b) THEN 1
  ELSE LET diff == {i \in 1..Len(a) : a[i] # b[i]}
           top == CHOOSE i \in diff : \A j \in diff : j <= i
       IN  IF diff = {} THEN 0 ELSE IF a[top] < b[top] THEN -1 ELSE 1

(* p^k for p in PRIMES *)
RECURSIVE BPow(_, _)
BPow(p, k) ==
  IF k <= 4 THEN BFromInt(IntPow(p, k))
  ELSE LET h == BPow(p, k \div 2)
       IN  BMulSmall(BMul(h, h), IF k % 2 = 0 THEN 1 ELSE p)

(* a * p^k for p in PRIMES *)
BMulPow(a, p, k) == IF k = 0 THEN a ELSE BMul(a, BPow(p, k))

----------------------------------------------------------------------------
(* Doubles.  A value is NaN, an infinity, or the exact fraction            *)
(*   s * n / (2^e[1] * 3^e[2] * 5^e[3] * 7^e[4] * 11^e[5])                 *)
(* with sign s in {-1, 0, 1} and numerator n a natural number.  A fraction *)
(* is not kept in lowest terms: values are compared with FCmp / Same.      *)

PRIMES == <<2, 3, 5, 7, 11>>
ZE == [i \in 1..Len(PRIMES) |-> 0]

Fin(s, n, e) == [k |-> "fin", s |-> s, n |-> n, e |-> e]
NaN == [k |-> "nan", s |-> 0, n |-> <<>>, e |-> ZE]
Inf(s) == [k |-> "inf", s |-> s, n |-> <<>>, e |-> ZE]
Zero == Fin(0, <<>>, ZE)
One == Fin(1, <<1>>, ZE)

IsNaN(a) == a.k = "nan"
IsFinite(a) == a.k = "fin"

FromInt(i) == IF i = 0 THEN Zero ELSE Fin(Sign(i), BFromInt(Abs(i)), ZE)

(* how often the prime p divides m > 0 *)
RECURSIVE Multiplicity(_, _)
Multiplicity(m, p) == IF m % p = 0 THEN 1 + Multiplicity(m \div p, p) ELSE 0

SmoothExp(m) == [i \in 1..Len(PRIMES) |-> Multiplicity(m, PRIMES[i])]

IsSmooth(m) ==
  LET e == SmoothExp(m)
  IN  m = IntPow(2, e[1]) * IntPow(3, e[2]) * IntPow(5, e[3])
          * IntPow(7, e[4]) * IntPow(11, e[5])

RECURSIVE GCD(_, _)
GCD(a, b) == IF b = 0 THEN a ELSE GCD(b, a % b)

(* the fraction a / b of two integers, b > 0 a product of PRIMES *)
FromRatio(a, b) ==
  LET d == GCD(Abs(a), b)
  IN  IF a = 0 THEN Zero
      ELSE Fin(Sign(a), BFromInt(Abs(a) \div d), SmoothExp(b \div d))

(* the numerator of n / D(e) once written over D(f), f >= e pointwise *)
RECURSIVE ScaleFrom(_, _, _, _)
ScaleFrom(n, e, f, i) ==
  IF i > Len(PRIMES) THEN n
  ELSE ScaleFrom(BMulPow(n, PRIMES[i], f[i] - e[i]), e, f, i + 1)

ScaleTo(n, e, f) == ScaleFrom(n, e, f, 1)

EMax(e, f) == [i \in 1..Len(PRIMES) |-> Max(e[i], f[i])]
EAdd(e, f) == [i \in 1..Len(PRIMES) |-> e[i] + f[i]]

(* the order of two finite values: -1, 0, 1 *)
FCmp(a, b) ==
  IF a.s # b.s THEN (IF a.s < b.s THEN -1 ELSE 1)
  ELSE IF a.s = 0 THEN 0
  ELSE LET f == EMax(a.e, b.e)
       IN  a.s * BCmp(ScaleTo(a.n, a.e, f), ScaleTo(b.n, b.e, f))

FNeg(a) == [a EXCEPT !.s = -a.s]

(* sa * na / D(f) + sb * nb / D(f) for signs sa, sb # 0 *)
AddScaled(sa, na, sb, nb, f) ==
  IF sa = sb THEN Fin(sa, BAdd(na, nb), f)
  ELSE IF BCmp(na, nb) = 0 THEN Zero
  ELSE IF BCmp(na, nb) > 0 THEN Fin(sa, BSub(na, nb), f)
  ELSE Fin(sb, BSub(nb, na), f)

FAdd(a, b) ==
  IF IsNaN(a) \/ IsNaN(b) THEN NaN
  ELSE IF a.k = "inf" /\ b.k = "inf" THEN (IF a.s = b.s THEN a ELSE NaN)
  ELSE IF a.k = "inf" THEN a
  ELSE IF b.k = "inf" THEN b
  ELSE IF a.s = 0 THEN b
  ELSE IF b.s = 0 THEN a
  ELSE AddScaled(a.s, ScaleTo(a.n, a.e, EMax(a.e, b.e)),
                 b.s, ScaleTo(b.n, b.e, EMax(a.e, b.e)), EMax(a.e, b.e))

FSub(a, b) == FAdd(a, FNeg(b))

FMul(a, b) ==
  IF IsNaN(a) \/ IsNaN(b) THEN NaN
  ELSE IF a.k = "inf" \/ b.k = "inf"
       THEN (IF a.s * b.s = 0 THEN NaN ELSE Inf(a.s * b.s))
  ELSE IF a.s = 0 \/ b.s = 0 THEN Zero
  ELSE Fin(a.s * b.s, BMul(a.n, b.n), EAdd(a.e, b.e))

(* a BigNat below LIMB^2 as an integer *)
BToInt(n) ==
  IF n = <<>> THEN 0 ELSE IF Len(n) = 1 THEN n[1] ELSE n[1] + LIMB * n[2]

(* 1 / a.  The numerator of a finite a must be below LIMB^2 and have no    *)
(* prime factor above 11 (true of every divisor the inputs of this model   *)
(* lead to); the CHOOSE over the empty set stops TLC otherwise.            *)
FRecip(a) ==
  IF IsNaN(a) THEN NaN
  ELSE IF a.k = "inf" THEN Zero
  ELSE IF a.s = 0 THEN Inf(1)
  ELSE LET m == BToInt(a.n)
       IN  IF Len(a.n) <= 2 /\ IsSmooth(m)
           THEN Fin(a.s, ScaleTo(<<1>>, ZE, a.e), SmoothExp(m))
           ELSE CHOOSE v \in {} : TRUE

(* np.power(a, m) and a ** m for an integer exponent m *)
RECURSIVE FPowPos(_, _)
FPowPos(a, m) ==
  IF m = 0 THEN One
  ELSE IF m = 1 THEN a
  ELSE LET h == FPowPos(a, m \div 2)
       IN  FMul(FMul(h, h), IF m % 2 = 0 THEN One ELSE a)

FPow(a, m) ==
  IF m = 0 THEN One ELSE FPowPos(IF m > 0 THEN a ELSE FRecip(a), Abs(m))

(* IEEE comparisons: every comparison with NaN is false *)
FLeq(a, b) ==
  /\ ~IsNaN(a) /\ ~IsNaN(b)
  /\ IF a.k = "inf" THEN (a.s < 0 \/ (b.k = "inf" /\ b.s > 0))
     ELSE IF b.k = "inf" THEN b.s > 0
     ELSE FCmp(a, b) <= 0

FLt(a, b) == FLeq(a, b) /\ ~FLeq(b, a)

(* the same double: equal numbers, the same infinity, or both NaN *)
Same(a, b) ==
  IF IsFinite(a) /\ IsFinite(b) THEN FCmp(a, b) = 0
  ELSE a.k = b.k /\ a.s = b.s

(* v, evaluated here: TLC evaluates an array [i \in S |-> e] element by    *)
(* element on demand, and comparing it makes it evaluate all of them       *)
Forced(v) == IF v = v THEN v ELSE v

(* the sum of the elements lo..hi of a sequence *)
RECURSIVE SumRange(_, _, _)
SumRange(v, lo, hi) ==
  IF lo > hi THEN Zero
  ELSE IF lo = hi THEN v[lo]
  ELSE LET mid == (lo + hi) \div 2
       IN  FAdd(SumRange(v, lo, mid), SumRange(v, mid + 1, hi))

FSum(v) == SumRange(v, 1, Len(v))

----------------------------------------------------------------------------
(* Fixed point for the abscissa and for _normal_pdf.  x, eped, spe and the *)
(* sigmas are integers in units of 1/GS; a density is an integer in units  *)
(* of 1/VS.                                                                *)

GS == 10 * 10
VS == 100 * 100

(* floor of the square root, by Newton's iteration from above *)
RECURSIVE ISqrtFrom(_, _)
ISqrtFrom(v, r) ==
  LET q == (r + v \div r) \div 2
  IN  IF q >= r THEN r ELSE ISqrtFrom(v, q)

ISqrt(v) == IF v <= 0 THEN 0 ELSE ISqrtFrom(v, v)

(* e^-i for i = 0..9, in units of 1/VS; below 1/VS from i = 10 on *)
EXP_NEG_INT == <<10000, 3679, 1353, 498, 183, 67, 25, 9, 3, 1>>

(* sum over i = 0..8 of (-f)^i / i!, f in [0, 1), by its terms *)
RECURSIVE ExpSeries(_, _, _)
ExpSeries(f, i, term) ==
  IF i > 8 THEN 0
  ELSE LET next == (term * f) \div (VS * i)
       IN  (IF i % 2 = 1 THEN -next ELSE next) + ExpSeries(f, i + 1, next)

(* np.exp(-t) for t >= 0, t and the result in units of 1/VS *)
ExpNegFx(t) ==
  LET ti == t \div VS
      tf == t % VS
  IN  IF ti >= Len(EXP_NEG_INT) THEN 0
      ELSE (EXP_NEG_INT[ti + 1] * (VS + ExpSeries(tf, 1, VS))) \div VS

----------------------------------------------------------------------------
(* Module level of gentile.py, lines 45-53                                 *)

(* C = np.sqrt(2.0 * np.pi) = 2.5066..., in units of 1/VS *)
C == 25066

NPEAKS == 11

RECURSIVE factorial(_)
factorial(i) == IF i = 0 THEN One ELSE FMul(FromInt(i), factorial(i - 1))

MakeFACTORIAL == Forced([i \in 0..14 |-> factorial(i)])

(* np.arange(NPEAKS)[:, None], np.arange(NPEAKS)[None, :] and              *)
(* np.arange(1, NPEAKS)[:, None]: N and K run along axis 0, J along axis 1 *)
MakeN == [n \in 0..(NPEAKS - 1) |-> n]
MakeJ == [j \in 0..(NPEAKS - 1) |-> j]
(* a variant of K that starts at 0: np.arange(NPEAKS - 1)[:, None] *)
MakeK_from0 == [i \in 0..(NPEAKS - 2) |-> i]

MakeK == [i \in 0..(NPEAKS - 2) |-> i + 1]

(* n! / (k! (n-k)!) by the multiplication formula, 0 <= k <= n *)
RECURSIVE Choose(_, _)
Choose(n, k) == IF k = 0 THEN 1 ELSE (Choose(n, k - 1) * (n - k + 1)) \div k

(* scipy.special.binom on integer arguments: NaN for a negative integer n  *)
(* ("undefined"), 0 for k outside 0..n, the binomial coefficient otherwise *)
binom(n, k) ==
  IF n < 0 THEN NaN
  ELSE IF k < 0 \/ k > n THEN Zero
  ELSE FromInt(Choose(n, k))

MakeFACTORIAL_J_INV(FACT, J_) ==
  Forced([j \in DOMAIN J_ |-> FMul(One, FRecip(FACT[J_[j]]))])

MakeBINOM(N_, J_) ==
  Forced([n \in DOMAIN N_ |-> [j \in DOMAIN J_ |-> binom(N_[n] - 1, J_[j] - 1)]])

(* the module namespace after import *)
ModuleGlobals ==
  [FACTORIAL |-> MakeFACTORIAL,
   N |-> MakeN, J |-> MakeJ, K |-> MakeK,
   FACTORIAL_J_INV |-> MakeFACTORIAL_J_INV(MakeFACTORIAL, MakeJ),
   BINOM |-> MakeBINOM(MakeN, MakeJ)]

----------------------------------------------------------------------------
(* The evaluator, lines 56-230.  g is the module namespace.                *)

(* _normal_pdf(x, mean, std_deviation) at one point; std_deviation > 0.    *)
(* u = (x - mean) / std_deviation; exp(-0.5 u^2) / (C std_deviation).      *)
(* exp(-0.5 u^2) is below 1/VS once |u| exceeds 4.3, and is 0 there.       *)
_normal_pdf(x, mean, std_deviation) ==
  LET u == (Abs(x - mean) * VS) \div std_deviation
      t == (u * u) \div (2 * VS)
      e == IF u < 46000 THEN ExpNegFx(t) ELSE 0
      den == (C * std_deviation) \div GS
  IN  FromRatio((e * VS) \div den, VS)

(* np.exp(-mu) to 12 decimal places, for the illumination means drawn by   *)
(* this model (mu in units of 1/1000), as base-10000 limbs                 *)
EXP_NEG ==
  [m \in {0, 1, 500, 1000, 2000, 3000, 6000} |->
     CASE m = 0    -> <<0, 0, 0, 1>>
       [] m = 1    -> <<9833, 49, 9990>>
       [] m = 500  -> <<9713, 3065, 6065>>
       [] m = 1000 -> <<1171, 7944, 3678>>
       [] m = 2000 -> <<3237, 3528, 1353>>
       [] m = 3000 -> <<8368, 8706, 497>>
       [] m = 6000 -> <<2177, 7875, 24>>]

Milli(m) == FromRatio(m, 1000)

exp_neg(mu) ==
  LET m == CHOOSE m \in DOMAIN EXP_NEG : Same(mu, Milli(m))
  IN  Fin(1, EXP_NEG[m], <<12, 0, 12, 0, 0>>)

(* _poisson_pmf_j(mu) = mu ** J * np.exp(-mu) * FACTORIAL_J_INV *)
_poisson_pmf_j(g, mu) ==
  LET e == exp_neg(mu)
  IN  Forced([j \in DOMAIN g.J |->
                FMul(FMul(FPow(mu, g.J[j]), e), g.FACTORIAL_J_INV[j])])

(* pedestal_signal, lines 116-118: one value per element of x *)
pedestal_signal(x, norm, eped, eped_sigma, lambda_) ==
  LET p_ped == exp_neg(lambda_)
  IN  Forced([i \in DOMAIN x |->
                FMul(FMul(norm, p_ped), _normal_pdf(x[i], eped, eped_sigma))])

(* a variant of line 166 with the two probabilities exchanged:             *)
(* np.sum(pj * np.power(opct, J) * np.power(1-opct, N - J) * BINOM, 1)     *)
CrosstalkMixture_exchanged(g, pj, opct) ==
  LET lo == 0 - (NPEAKS - 1)
      a == Forced([j \in DOMAIN g.J |-> FPow(opct, g.J[j])])
      b == Forced([d \in lo..(NPEAKS - 1) |-> FPow(FSub(One, opct), d)])
      term(n, j) ==
        FMul(FMul(FMul(pj[j], a[j]), b[g.N[n] - g.J[j]]), g.BINOM[n][j])
  IN  Forced([n \in DOMAIN g.N |->
                FSum(Forced([j \in 1..NPEAKS |-> term(n, j - 1)]))])

(* line 166: pct = np.sum(pj * np.power(1-opct, J) * np.power(opct, N - J) *)
(*                        * BINOM, 1), the sum along axis 1 (over j)       *)
CrosstalkMixture(g, pj, opct) ==
  LET lo == 0 - (NPEAKS - 1)
      a == Forced([j \in DOMAIN g.J |-> FPow(FSub(One, opct), g.J[j])])
      b == Forced([d \in lo..(NPEAKS - 1) |-> FPow(opct, d)])
      term(n, j) ==
        FMul(FMul(FMul(pj[j], a[j]), b[g.N[n] - g.J[j]]), g.BINOM[n][j])
  IN  Forced([n \in DOMAIN g.N |->
                FSum(Forced([j \in 1..NPEAKS |-> term(n, j - 1)]))])

(* lines 170-173: papk, p0ap, pap1, pap2 *)
AfterpulseSplit(g, pct, pap) ==
  LET split(papk) ==
        [papk |-> papk,
         p0ap |-> Forced([n \in DOMAIN g.N |-> FMul(pct[n], papk[n])]),
         pap1 |-> Forced([n \in DOMAIN g.N |->
                     FMul(FMul(pct[n], FSub(One, papk[n])), papk[n])]),
         pap2 |-> Forced([n \in DOMAIN g.N |->
                     FMul(FMul(pct[n], FSub(One, papk[n])),
                          FSub(One, papk[n]))])]
  IN  split(Forced([n \in DOMAIN g.N |-> FPow(FSub(One, pap), g.N[n])]))

(* pe_signal, lines 164-182, called with k of shape [K, 1] and x of shape  *)
(* [1, X]: the returned signal has shape [K, X].  Each local is bound      *)
(* once, in the order of the statements.  The record also holds the locals *)
(* of the call and what the call leaves in the module namespace and in the *)
(* caller's x (no statement of the function writes to either: signal is    *)
(* the fresh array of line 178, updated in place by lines 179-180).        *)
pe_signal(g, k, x, norm, eped, eped_sigma, spe, spe_sigma, lambda_, opct, pap, dap) ==
  LET sap == spe_sigma
      pe_sigma == [i \in DOMAIN k |->
                     ISqrt(k[i] * spe_sigma * spe_sigma
                           + eped_sigma * eped_sigma)]
      ap_sigma == [i \in DOMAIN k |->
                     ISqrt(k[i] * sap * sap + eped_sigma * eped_sigma)]
      line178(ap) ==
        [i \in DOMAIN k |-> [c \in DOMAIN x |->
           FMul(ap.p0ap[k[i]],
                _normal_pdf(x[c], eped + k[i] * spe, pe_sigma[i]))]]
      line179(ap, signal) ==
        [i \in DOMAIN k |-> [c \in DOMAIN x |->
           FAdd(signal[i][c],
                FMul(ap.pap1[k[i]],
                     _normal_pdf(x[c],
                                 eped + (k[i] * spe * (GS - dap)) \div GS,
                                 ap_sigma[i])))]]
      line180(signal) ==
        [i \in DOMAIN k |-> [c \in DOMAIN x |-> FMul(signal[i][c], norm)]]
      lines175(pj, pct, ap) ==
        [signal |-> Forced(line180(Forced(line179(ap, Forced(line178(ap)))))),
         pj |-> pj, pct |-> pct, papk |-> ap.papk,
         p0ap |-> ap.p0ap, pap1 |-> ap.pap1, pap2 |-> ap.pap2,
         g |-> g, x |-> x]
      lines168(pj, pct) == lines175(pj, pct, AfterpulseSplit(g, pct, pap))
      line166(pj) == lines168(pj, CrosstalkMixture(g, pj, opct))
  IN  line166(_poisson_pmf_j(g, lambda_))

(* ndarray.sum(0) of an array of shape [K, X]: the sum along axis 0 *)
sum0(a, cols) ==
  Forced([c \in cols |->
            FSum(Forced([r \in 1..Cardinality(DOMAIN a) |-> a[r - 1][c]]))])

(* a variant of sipm_spe_fit that keeps the Poisson weights of the call in *)
(* the module table FACTORIAL_J_INV                                        *)
sipm_spe_fit_keeping(g, x, norm, eped, eped_sigma, spe, spe_sigma, lambda_, opct, pap, dap) ==
  LET line228(ped_s, pe, pe_s) ==
        [signal |-> Forced([i \in DOMAIN x |-> FAdd(ped_s[i], pe_s[i])]),
         ped_s |-> ped_s, pe_s |-> pe_s,
         pe |-> [pe EXCEPT !.g.FACTORIAL_J_INV = pe.pj]]
      line226(ped_s, pe) == line228(ped_s, pe, sum0(pe.signal, DOMAIN x))
  IN  line226(pedestal_signal(x, norm, eped, eped_sigma, lambda_),
              pe_signal(g, g.K, x, norm, eped, eped_sigma, spe, spe_sigma,
                        lambda_, opct, pap, dap))

(* sipm_spe_fit, lines 219-230: the returned signal, with the locals *)
sipm_spe_fit(g, x, norm, eped, eped_sigma, spe, spe_sigma, lambda_, opct, pap, dap) ==
  LET line228(ped_s, pe, pe_s) ==
        [signal |-> Forced([i \in DOMAIN x |-> FAdd(ped_s[i], pe_s[i])]),
         ped_s |-> ped_s, pe_s |-> pe_s, pe |-> pe]
      line226(ped_s, pe) == line228(ped_s, pe, sum0(pe.signal, DOMAIN x))
  IN  line226(pedestal_signal(x, norm, eped, eped_sigma, lambda_),
              pe_signal(g, g.K, x, norm, eped, eped_sigma, spe, spe_sigma,
                        lambda_, opct, pap, dap))

----------------------------------------------------------------------------
(* GentileFitter, lines 8-42                                               *)

None == [k |-> "none"]
Value(v) == [k |-> "value", v |-> v]

(* SpectrumFitter.add_parameter(name, default, lower, upper, fix, multi):  *)
(* records the declaration under its name                                  *)
add_parameter(params, name, default, lower, upper, fix_, multi) ==
  [q \in DOMAIN params \cup {name} |->
     IF q = name
     THEN [default |-> default, lower |-> lower, upper |-> upper,
           fix |-> fix_, multi |-> multi]
     ELSE params[q]]

(* a variant of lines 24-32 whose opct may reach 0 *)
GentileFitter_init_opct0 ==
  LET p1 == add_parameter(<<>>, "norm", None, 0, 100000000, TRUE, TRUE)
      p2 == add_parameter(p1, "eped", Value(0), -10000, 10000, FALSE, FALSE)
      p3 == add_parameter(p2, "eped_sigma", Value(9000), 2000, 20000, FALSE, FALSE)
      p4 == add_parameter(p3, "spe", Value(25000), 15000, 40000, FALSE, FALSE)
      p5 == add_parameter(p4, "spe_sigma", Value(2000), 1000, 20000, FALSE, FALSE)
      p6 == add_parameter(p5, "lambda_", Value(700), 1, 6000, FALSE, TRUE)
      p7 == add_parameter(p6, "opct", Value(400), 0, 800, FALSE, FALSE)
      p8 == add_parameter(p7, "pap", Value(90), 10, 800, FALSE, FALSE)
  IN  add_parameter(p8, "dap", Value(500), 0, 800, FALSE, FALSE)

(* lines 24-32; defaults and limits in units of 1/1000, fix and multi      *)
(* False where the call does not pass them                                 *)
GentileFitter_init ==
  LET p1 == add_parameter(<<>>, "norm", None, 0, 100000000, TRUE, TRUE)
      p2 == add_parameter(p1, "eped", Value(0), -10000, 10000, FALSE, FALSE)
      p3 == add_parameter(p2, "eped_sigma", Value(9000), 2000, 20000, FALSE, FALSE)
      p4 == add_parameter(p3, "spe", Value(25000), 15000, 40000, FALSE, FALSE)
      p5 == add_parameter(p4, "spe_sigma", Value(2000), 1000, 20000, FALSE, FALSE)
      p6 == add_parameter(p5, "lambda_", Value(700), 1, 6000, FALSE, TRUE)
      p7 == add_parameter(p6, "opct", Value(400), 10, 800, FALSE, FALSE)
      p8 == add_parameter(p7, "pap", Value(90), 10, 800, FALSE, FALSE)
  IN  add_parameter(p8, "dap", Value(500), 0, 800, FALSE, FALSE)

(* the names the fitting engine passes to prepare_params and _fit: a multi *)
(* parameter once per illumination, 'norm{}'.format(i) being <<"norm", i>>; *)
(* a shared parameter as <<name, -1>>                                      *)
Keys(params, n) ==
  {<<q, i>> : q \in {r \in DOMAIN params : params[r].multi}, i \in 0..(n - 1)}
  \cup {<<q, -1>> : q \in {r \in DOMAIN params : ~params[r].multi}}

DefaultP0(params, n) ==
  [key \in Keys(params, n) |->
     IF params[key[1]].default = None THEN None
     ELSE Milli(params[key[1]].default.v)]

DefaultLimits(params, n) ==
  [key \in Keys(params, n) |-> <<params[key[1]].lower, params[key[1]].upper>>]

DefaultFix(params, n) == [key \in Keys(params, n) |-> params[key[1]].fix]

(* a variant of the integral by the left rectangle rule *)
rect(y, x) ==
  FSum(Forced([i \in 1..(Len(x) - 1) |->
          FMul(FromRatio(x[i + 1] - x[i], GS), FromInt(y[i]))]))

(* np.trapz(y, x): the sum of (x[i+1] - x[i]) * (y[i+1] + y[i]) / 2.0;     *)
(* y in counts, x in units of 1/GS                                         *)
trapz(y, x) ==
  FSum(Forced([i \in 1..(Len(x) - 1) |->
          FMul(FMul(FromRatio(x[i + 1] - x[i], GS), FromInt(y[i + 1] + y[i])),
               FRecip(FromInt(2)))]))

(* prepare_params, lines 35-38: the dictionaries after the call *)
RECURSIVE prepare_loop(_, _, _, _, _)
prepare_loop(i, n, p, h, b) ==
  IF i >= n THEN p
  ELSE prepare_loop(i + 1, n,
                    IF p[<<"norm", i>>] = None
                    THEN [p EXCEPT ![<<"norm", i>>] = trapz(h[i], b)]
                    ELSE p,
                    h, b)

prepare_params(self, p0_, limits_, fix__) ==
  [p0 |-> prepare_loop(0, self.n_illuminations, p0_, self.hist, self.between),
   limits |-> limits_, fix |-> fix__]

----------------------------------------------------------------------------
(* State                                                                   *)

VARIABLES
  g,           \* the module namespace of gentile.py (the lookup tables)
  self,        \* the GentileFitter: parameters, n_illuminations, hist, between
  p0,          \* the defaults handed to prepare_params
  limits,      \* the limits handed to prepare_params
  fix,         \* the fix flags handed to prepare_params
  prepared,    \* prepare_params has been called
  pc,          \* "idle", or "called" while an evaluation is in progress
  fn,          \* the function of the latest call
  x,           \* the caller's grid array of the latest call
  args,        \* the arguments of the latest call
  ret,         \* what the latest call returned, None while it runs
  ncalls       \* the number of calls made so far

vars == <<g, self, p0, limits, fix, prepared, pc, fn, x, args, ret, ncalls>>
fitterVars == <<self, p0, limits, fix, prepared>>
evalVars == <<g, pc, fn, x, args, ret, ncalls>>

(* Bounds and the inputs drawn *)
MaxIllum == 2
MaxCalls == 2

Hists == {<<0, 0, 0>>, <<1, 4, 2>>, <<3, 0, 5>>, <<7, 7, 7>>}
Betweens == {<<-2000, 0, 2000>>, <<0, 190, 1500>>}
PresetNorms == {None, FromInt(1000)}

Lambdas == {0, 500, 6000}
Opcts == {0, 400, 800, 1000}
Paps == {0, 90, 1000}
Daps == {50}
Norms == {1000}
Grids == {<<0, 2000>>, <<2000, 700, -4000>>}

ArgSets ==
  [norm : {FromInt(v) : v \in Norms},
   eped : {0}, eped_sigma : {500}, spe : {2000}, spe_sigma : {200},
   lambda_ : {Milli(v) : v \in Lambdas},
   opct : {Milli(v) : v \in Opcts},
   pap : {Milli(v) : v \in Paps},
   dap : Daps]

NoArgs == [k |-> "none"]

Fitters ==
  UNION {{[parameters |-> GentileFitter_init, n_illuminations |-> n,
           hist |-> h, between |-> b] :
            h \in [0..(n - 1) -> Hists], b \in Betweens} : n \in 1..MaxIllum}

InitEval ==
  /\ g = ModuleGlobals
  /\ pc = "idle" /\ fn = "none" /\ x = <<>> /\ args = NoArgs /\ ret = None
  /\ ncalls = 0

InitFitter(fs) ==
  /\ self \in fs
  /\ \E presets \in [0..(self.n_illuminations - 1) -> PresetNorms] :
       p0 = [key \in Keys(self.parameters, self.n_illuminations) |->
               IF key[1] = "norm" THEN presets[key[2]]
               ELSE DefaultP0(self.parameters, self.n_illuminations)[key]]
  /\ limits = DefaultLimits(self.parameters, self.n_illuminations)
  /\ fix = DefaultFix(self.parameters, self.n_illuminations)
  /\ prepared = FALSE

(* GentileFitter.prepare_params(p0, limits, fix) *)
PrepareParams ==
  /\ pc = "idle"
  /\ LET r == prepare_params(self, p0, limits, fix)
     IN  p0' = r.p0 /\ limits' = r.limits /\ fix' = r.fix
  /\ prepared' = TRUE
  /\ UNCHANGED <<self, evalVars>>

(* a caller invokes GentileFitter._fit(x, **kwargs) = sipm_spe_fit *)
CallFit(grid, a) ==
  /\ pc = "idle" /\ ncalls < MaxCalls
  /\ pc' = "called" /\ fn' = "sipm_spe_fit"
  /\ x' = grid /\ args' = a /\ ret' = None /\ ncalls' = ncalls + 1
  /\ UNCHANGED <<g, fitterVars>>

(* a caller invokes pedestal_signal(x, norm, eped, eped_sigma, lambda_) *)
CallPedestal(grid, a) ==
  /\ pc = "idle" /\ ncalls < MaxCalls
  /\ pc' = "called" /\ fn' = "pedestal_signal"
  /\ x' = grid /\ args' = a /\ ret' = None /\ ncalls' = ncalls + 1
  /\ UNCHANGED <<g, fitterVars>>

(* sipm_spe_fit runs to its return *)
ReturnFit ==
  /\ pc = "called" /\ fn = "sipm_spe_fit"
  /\ LET r == sipm_spe_fit(g, x, args.norm, args.eped, args.eped_sigma,
                           args.spe, args.spe_sigma, args.lambda_, args.opct,
                           args.pap, args.dap)
     IN  ret' = r
  /\ g' = ret'.pe.g
  /\ x' = ret'.pe.x
  /\ pc' = "idle"
  /\ UNCHANGED <<fn, args, ncalls, fitterVars>>

(* pedestal_signal runs to its return *)
ReturnPedestal ==
  /\ pc = "called" /\ fn = "pedestal_signal"
  /\ ret' = [signal |-> pedestal_signal(x, args.norm, args.eped,
                                        args.eped_sigma, args.lambda_)]
  /\ pc' = "idle"
  /\ UNCHANGED <<g, fn, x, args, ncalls, fitterVars>>

PedestalArgs == {a \in ArgSets : a.opct = Zero /\ a.pap = Zero}

OneFitter ==
  {f \in Fitters : /\ f.n_illuminations = 1
                   /\ f.hist[0] = <<1, 4, 2>>
                   /\ f.between = <<-2000, 0, 2000>>}

(* The evaluator under repeated calls *)
Init == InitEval /\ InitFitter(OneFitter) /\ p0[<<"norm", 0>>] = None

Next ==
  \/ \E grid \in Grids, a \in ArgSets : CallFit(grid, a)
  \/ \E grid \in Grids, a \in PedestalArgs : CallPedestal(grid, a)
  \/ ReturnFit
  \/ ReturnPedestal

Spec == Init /\ [][Next]_vars

(* The fitter's parameter binding *)
InitParams == InitEval /\ InitFitter(Fitters)

NextParams == PrepareParams

SpecParams == InitParams /\ [][NextParams]_vars

----------------------------------------------------------------------------
(* Properties                                                              *)

(* sipm_spe_fit has returned: ret holds its signal and its locals *)
Returned == pc = "idle" /\ fn = "sipm_spe_fit"

Peaks == 1..(NPEAKS - 1)

(* sqrt(k * spe_sigma^2 + eped_sigma^2) of the latest call *)
sigma_k(k) ==
  ISqrt(k * args.spe_sigma * args.spe_sigma
        + args.eped_sigma * args.eped_sigma)

(* sum over n = 1..m of pct[n] *)
CumulativeMass(pct, m) == FSum([n \in 1..m |-> pct[n]])

(* the weight of peak k in the output: p0ap[k] + pap1[k] *)
PeakWeight(k) == FAdd(ret.pe.p0ap[k], ret.pe.pap1[k])

(* C1: with opct = 0 and pap = 0 the observed weights pct[k] are the       *)
(* Poisson weights pj[k], pap1[k] is 0, and the photoelectron component at *)
(* every grid point is the finite number                                   *)
(* norm * sum over k of pj[k] * density(x, eped + k*spe, sigma_k)          *)
C1_ReducesToPoisson ==
  (Returned /\ Same(args.opct, Zero) /\ Same(args.pap, Zero)) =>
    /\ \A k \in Peaks : /\ Same(ret.pe.pct[k], ret.pe.pj[k])
                        /\ Same(ret.pe.pap1[k], Zero)
    /\ \A c \in DOMAIN x :
         /\ IsFinite(ret.pe_s[c])
         /\ Same(ret.pe_s[c],
                 FMul(args.norm,
                      FSum([k \in Peaks |->
                              FMul(ret.pe.pj[k],
                                   _normal_pdf(x[c], args.eped + k * args.spe,
                                               sigma_k(k)))])))

(* C2: the returned signal is finite and non-negative at every grid point  *)
(* when opct and pap are in [0, 1], the sigmas positive, norm >= 0 and     *)
(* lambda_ >= 0                                                            *)
C2_NonNegative ==
  (/\ Returned
   /\ FLeq(Zero, args.opct) /\ FLeq(args.opct, One)
   /\ FLeq(Zero, args.pap) /\ FLeq(args.pap, One)
   /\ args.eped_sigma > 0 /\ args.spe_sigma > 0
   /\ FLeq(Zero, args.norm) /\ FLeq(Zero, args.lambda_)) =>
    \A c \in DOMAIN x :
      IsFinite(ret.signal[c]) /\ FLeq(Zero, ret.signal[c])

(* C3: for lambda_ within its declared bounds 0.001..6 the NPEAKS Poisson  *)
(* weights sum to at least 1 - 1e-4                                        *)
C3_TailBelowThreshold ==
  (/\ Returned
   /\ FLeq(Milli(self.parameters["lambda_"].lower), args.lambda_)
   /\ FLeq(args.lambda_, Milli(self.parameters["lambda_"].upper))) =>
    FLeq(FromRatio(9999, 10000),
         FSum([j \in 1..NPEAKS |-> ret.pe.pj[j - 1]]))

(* C4: the returned signal has one value per element of x, in the order of *)
(* x; the value at position i is pedestal_signal at x[i] plus norm times   *)
(* the sum over k = 1..NPEAKS-1 of p0ap[k] * density(x[i], eped + k*spe,   *)
(* sigma_k) + pap1[k] * density(x[i], eped + k*spe*(1-dap), sigma_k); and  *)
(* it is the value a call on the one-point grid <<x[i]>> returns           *)
C4_PointwiseSum ==
  Returned =>
    /\ DOMAIN ret.signal = DOMAIN x
    /\ \A i \in DOMAIN x :
         /\ Same(ret.signal[i],
                 FAdd(FMul(FMul(args.norm, exp_neg(args.lambda_)),
                           _normal_pdf(x[i], args.eped, args.eped_sigma)),
                      FMul(args.norm,
                           FSum([k \in Peaks |->
                              FAdd(FMul(ret.pe.p0ap[k],
                                        _normal_pdf(x[i],
                                                    args.eped + k * args.spe,
                                                    sigma_k(k))),
                                   FMul(ret.pe.pap1[k],
                                        _normal_pdf(x[i],
                                                    args.eped
                                                    + (k * args.spe
                                                       * (GS - args.dap))
                                                      \div GS,
                                                    sigma_k(k))))]))))
         /\ ret.signal[i] =
              sipm_spe_fit(ModuleGlobals, <<x[i]>>, args.norm, args.eped,
                           args.eped_sigma, args.spe, args.spe_sigma,
                           args.lambda_, args.opct, args.pap,
                           args.dap).signal[1]

C4_Witness ==
  /\ Returned /\ x = <<2000, 700, -4000>>
  /\ args.opct = Milli(400) /\ args.pap = Milli(90)
  /\ IsFinite(ret.signal[1]) /\ ret.signal[1].s = 1
  /\ FLt(ret.signal[3], ret.signal[1])

(* the crosstalk probabilities the mixture of a call is compared with *)
SupportedOpcts == {Milli(10), Milli(100), Milli(400), Milli(800)}

InSupportedOpct(p) ==
  /\ FLeq(Milli(self.parameters["opct"].lower), p)
  /\ FLeq(p, Milli(self.parameters["opct"].upper))

(* C5: for opct of the call within its declared bounds and every supported *)
(* p1 <= opct, the cumulative observed mass of the counts 1..m under opct  *)
(* is at most the one under p1, for every m in 1..NPEAKS-1                 *)
C5_MassMovesUp ==
  (Returned /\ InSupportedOpct(args.opct)) =>
    \A p1 \in {p \in SupportedOpcts : InSupportedOpct(p) /\ FLeq(p, args.opct)} :
      \A m \in Peaks :
        FLeq(CumulativeMass(ret.pe.pct, m),
             CumulativeMass(CrosstalkMixture(g, ret.pe.pj, p1), m))

C5_Witness ==
  /\ Returned /\ args.opct = Milli(800) /\ args.lambda_ = Milli(500)
  /\ FLt(CumulativeMass(ret.pe.pct, 3),
         CumulativeMass(CrosstalkMixture(g, ret.pe.pj, Milli(400)), 3))

(* the trapezoidal-rule integral of a three-bin histogram h over the bin   *)
(* centers b                                                               *)
TrapezoidIntegral(h, b) ==
  FromRatio((b[2] - b[1]) * (h[1] + h[2]) + (b[3] - b[2]) * (h[2] + h[3]),
            2 * GS)

(* C6: prepare_params replaces each unset norm<i> by the trapezoidal-rule  *)
(* integral of hist[i] over between, leaves a set one unchanged, leaves    *)
(* every other entry of p0 and all of limits and fix unchanged, and leaves *)
(* no norm<i> unset                                                        *)
C6_PrepareParams ==
  [][PrepareParams =>
       /\ DOMAIN p0' = DOMAIN p0
       /\ \A i \in 0..(self.n_illuminations - 1) :
            /\ p0'[<<"norm", i>>] # None
            /\ IF p0[<<"norm", i>>] = None
               THEN Same(p0'[<<"norm", i>>],
                         TrapezoidIntegral(self.hist[i], self.between))
               ELSE p0'[<<"norm", i>>] = p0[<<"norm", i>>]
       /\ \A key \in DOMAIN p0 : key[1] # "norm" => p0'[key] = p0[key]
       /\ limits' = limits
       /\ fix' = fix]_vars

C6_Witness ==
  /\ prepared /\ self.n_illuminations = 2
  /\ self.hist[0] = <<1, 4, 2>> /\ self.between = <<0, 190, 1500>>
  /\ p0[<<"norm", 0>>] # None /\ p0[<<"norm", 0>>] # FromInt(1000)
  /\ p0[<<"norm", 1>>] = FromInt(1000)

(* C7: p0ap[n] + pap1[n] + pap2[n] = pct[n] for every n; the weight of     *)
(* peak k is pct[k] * (1 - (1 - (1-pap)^k)^2), which is pct[k] when        *)
(* pap = 0, strictly below pct[k] when pap > 0 and pct[k] > 0, and 0 when  *)
(* pap = 1                                                                 *)
C7_AfterpulseMass ==
  Returned =>
    /\ \A n \in DOMAIN ret.pe.pct :
         Same(FAdd(FAdd(ret.pe.p0ap[n], ret.pe.pap1[n]), ret.pe.pap2[n]),
              ret.pe.pct[n])
    /\ \A k \in Peaks :
         /\ Same(PeakWeight(k),
                 FMul(ret.pe.pct[k],
                      FSub(One,
                           FMul(FSub(One, FPow(FSub(One, args.pap), k)),
                                FSub(One, FPow(FSub(One, args.pap), k))))))
         /\ Same(args.pap, Zero) => Same(PeakWeight(k), ret.pe.pct[k])
         /\ (FLt(Zero, args.pap) /\ FLt(Zero, ret.pe.pct[k])) =>
              FLt(PeakWeight(k), ret.pe.pct[k])
         /\ Same(args.pap, One) => Same(PeakWeight(k), Zero)

(* C8: BINOM[n][j] is 0 outside the domain of C(n-1, j-1); pct[0] = pj[0]; *)
(* and pct[n] = sum over j = 1..n of                                       *)
(* pj[j] * (1-opct)^j * opct^(n-j) * C(n-1, j-1) for n >= 1                *)
C8_BinomOutsideDomain ==
  /\ \A n \in DOMAIN g.N : \A j \in DOMAIN g.J :
       (j > n \/ (j = 0 /\ n >= 1)) => Same(g.BINOM[n][j], Zero)
  /\ Returned =>
       /\ Same(ret.pe.pct[0], ret.pe.pj[0])
       /\ \A n \in Peaks :
            Same(ret.pe.pct[n],
                 FSum([j \in 1..n |->
                         FMul(FMul(FMul(ret.pe.pj[j],
                                        FPow(FSub(One, args.opct), j)),
                                   FPow(args.opct, n - j)),
                              FromInt(Choose(n - 1, j - 1)))]))

(* C9: the module tables always are the ones built at import; a running    *)
(* call changes neither them nor the caller's x; and what sipm_spe_fit     *)
(* returned is what a call with the same arguments returns when no call    *)
(* was made before it                                                      *)
C9_Stateless ==
  /\ [](/\ g = ModuleGlobals
        /\ Returned =>
             ret.signal =
               sipm_spe_fit(ModuleGlobals, x, args.norm, args.eped,
                            args.eped_sigma, args.spe, args.spe_sigma,
                            args.lambda_, args.opct, args.pap,
                            args.dap).signal)
  /\ [][pc = "called" => (g' = g /\ x' = x)]_vars

C9_Witness ==
  /\ Returned /\ ncalls = MaxCalls /\ x = <<2000, 700, -4000>>
  /\ args.lambda_ = Milli(6000) /\ IsFinite(ret.signal[2])

(* C10: every declared parameter has lower <= upper and a default, if any, *)
(* within them; the bounds of opct and pap are within [0, 1], those of     *)
(* eped_sigma and spe_sigma above 0, that of lambda_ at least 0; exactly   *)
(* norm and lambda_ are multi and exactly norm is fixed; opct > 0          *)
C10_Schema ==
  LET P == self.parameters
  IN  /\ \A q \in DOMAIN P :
           /\ P[q].lower <= P[q].upper
           /\ P[q].default # None =>
                (P[q].lower <= P[q].default.v /\ P[q].default.v <= P[q].upper)
      /\ \A q \in {"opct", "pap"} : 0 <= P[q].lower /\ P[q].upper <= 1000
      /\ \A q \in {"eped_sigma", "spe_sigma"} : P[q].lower > 0
      /\ P["lambda_"].lower >= 0
      /\ {q \in DOMAIN P : P[q].multi} = {"norm", "lambda_"}
      /\ {q \in DOMAIN P : P[q].fix} = {"norm"}
      /\ P["opct"].lower > 0

C10_Witness ==
  /\ prepared
  /\ DOMAIN self.parameters =
       {"norm", "eped", "eped_sigma", "spe", "spe_sigma", "lambda_", "opct",
        "pap", "dap"}
  /\ self.parameters["norm"].default = None
  /\ DOMAIN limits = Keys(self.parameters, self.n_illuminations)
  /\ \A key \in DOMAIN limits :
       limits[key] = <<self.parameters[key[1]].lower,
                       self.parameters[key[1]].upper>>

=============================================================================
